---- MODULE Spec2Model ----
(***************************************************************************)
(* Model of the elderly-monitoring dashboard:                              *)
(*   fetch_data.py    the Data Fetcher (fetch_and_save_data)               *)
(*   ai_processor.py  the Answer Generator (client set-up, get_ai_response)*)
(*   minimal_app.py   the Streamlit dashboard (load and analyze handlers)  *)
(*                                                                         *)
(* A Python str is a sequence of tokens (a token is one character or one   *)
(* fixed phrase of the source), so that concatenation, join, strip and     *)
(* emptiness are computed and not assumed.  Python values that may be None *)
(* or of several types are tagged records.                                 *)
(***************************************************************************)
EXTENDS Integers, Sequences, FiniteSets, TLC

VARIABLES
    \* st.session_state of minimal_app.py
    sheet_data, error_message, user_question, ai_response,
    \* what the last handler run did: its kind, the state it started from,
    \* the messages it showed, the get_ai_response calls it made
    last,
    \* the sheet value the current ai_response was computed from
    answered_on,
    \* whether `from ai_processor import ...` succeeded (lines 8-17)
    ai_module_loaded,
    \* module globals of ai_processor.py
    google_api_key_loaded, gemini_model,
    \* position of ai_processor's module-level code, and what its
    \* environment did during client set-up
    ai_pc, init_env,
    \* a call of get_ai_response: arguments, what the endpoint does, and,
    \* once it has returned, its result
    call,
    \* one run of fetch_data.py: position, environment, locals, outputs
    f_pc, f_env, gc, fetched, all_values, out_file, stdout, stderr, exit_code,
    escaped

vars == << sheet_data, error_message, user_question, ai_response, last,
           answered_on, ai_module_loaded, google_api_key_loaded, gemini_model, ai_pc, init_env,
           call,
           f_pc, f_env, gc, fetched, all_values, out_file, stdout, stderr,
           exit_code, escaped >>

sessionVars == << sheet_data, error_message, user_question, ai_response, last,
                  answered_on, ai_module_loaded >>
clientVars == << google_api_key_loaded, gemini_model, ai_pc, init_env >>
fetchVars == << f_pc, f_env, gc, fetched, all_values, out_file, stdout,
                stderr, exit_code, escaped >>

(***************************************************************************)
(* Python values                                                           *)
(***************************************************************************)
None == [t |-> "None"]
Str(s) == [t |-> "str", s |-> s]
JList(rows) == [t |-> "list", rows |-> rows]
JInt(n) == [t |-> "int", n |-> n]

\* bool(v)
Truthy(v) ==
    CASE v.t = "None" -> FALSE
      [] v.t = "str" -> Len(v.s) > 0
      [] v.t = "list" -> Len(v.rows) > 0
      [] v.t = "int" -> v.n # 0
      [] OTHER -> TRUE

IsSpace(c) == c \in {" ", "\n", "\t"}

RECURSIVE LStrip(_)
LStrip(s) == IF s # <<>> /\ IsSpace(Head(s)) THEN LStrip(Tail(s)) ELSE s

RECURSIVE RStrip(_)
RStrip(s) ==
    IF s # <<>> /\ IsSpace(s[Len(s)]) THEN RStrip(SubSeq(s, 1, Len(s) - 1))
    ELSE s

\* str.strip()
Strip(s) == RStrip(LStrip(s))

\* sep.join(items), items a sequence of str
RECURSIVE Join(_, _)
Join(sep, items) ==
    IF items = <<>> THEN <<>>
    ELSE IF Len(items) = 1 THEN items[1]
    ELSE items[1] \o sep \o Join(sep, Tail(items))

\* seq[lo:hi] of Python, 0-based, hi exclusive
Slice(seq, lo, hi) ==
    SubSeq(seq, lo + 1, IF hi < Len(seq) THEN hi ELSE Len(seq))

\* an exception object: str(e), the optional .message attribute, and .args
Exc(type, str, has_message, message, args) ==
    [type |-> type, str |-> str, has_message |-> has_message,
     message |-> message, args |-> args]

\* the outcome of evaluating code that may raise
Ok(v) == [raised |-> FALSE, value |-> v]
Raise(e) == [raised |-> TRUE, exc |-> e]

(***************************************************************************)
(* ai_processor.py: module-level client initialization                     *)
(***************************************************************************)
\* a GenerativeModel object
Model(name) == [t |-> "model", model_name |-> name]

\* whether sub occurs in s (Python's `sub in s`)
Contains(sub, s) ==
    \E i \in 1..(Len(s) - Len(sub) + 1) : SubSeq(s, i, i + Len(sub) - 1) = sub

\* str.lower(), token by token
LowerToken(c) == IF c = "Gemini" THEN "gemini" ELSE c
Lower(s) == [i \in 1..Len(s) |-> LowerToken(s[i])]

\* lines 20 and 25: the model name chosen from the listing
ChooseModelName(models) ==
    LET gemini_models == {m \in models : Contains(<<"gemini">>, Lower(m))}
    IN  IF \E m \in gemini_models : Contains(<<"gemini", "-1.5-pro">>, m)
        THEN "gemini-1.5-pro"
        ELSE "gemini-pro"

NotInitialized == [loaded |-> FALSE, model |-> None]

\* a set-up that treats a listing failure as a failed initialization
ListingFallbackGivesUp(env) == NotInitialized

\* lines 29-35: the inner handler falls back to the default model name; an
\* exception of the fallback construction reaches the outer handler
\* (lines 40-42), which leaves the globals as lines 9-10 set them
ListingFallback(env) ==
    IF env.construct_fallback = "ok"
    THEN [loaded |-> TRUE, model |-> Model("gemini-pro")]
    ELSE NotInitialized

\* lines 9-42.  env is what the environment does: the value of
\* GOOGLE_API_KEY, and whether genai.configure, genai.list_models and the
\* two GenerativeModel constructions return or raise.
ModuleInit(env) ==
    IF ~Truthy(env.key) THEN NotInitialized
    ELSE IF env.configure = "raise" THEN NotInitialized
    ELSE IF env.listing = "ok" /\ env.construct = "ok"
         THEN [loaded |-> TRUE, model |-> Model(ChooseModelName(env.models))]
         ELSE ListingFallback(env)

(***************************************************************************)
(* ai_processor.py: get_ai_response                                        *)
(***************************************************************************)
\* line 57
InitErrorText ==
    <<"Error: El cliente de Google Gemini no está inicializado correctamente. Verifica la clave API.">>

\* a slice that takes one row too many
SliceToOffByOne == 6 + 1

\* line 66: the slice sheet_data[1:6]
SliceFrom == 1
SliceTo == 6

\* line 64 and line 68: ", ".join(map(str, row)) + "\n"
RowLine(row) == Join(<<", ">>, row) \o <<"\n">>

\* a loop without the test of line 67: an empty row gives a blank line
RECURSIVE DataLinesKeepsEmpty(_)
DataLinesKeepsEmpty(rows) ==
    IF rows = <<>> THEN <<>>
    ELSE RowLine(Head(rows)) \o DataLinesKeepsEmpty(Tail(rows))

\* lines 66-68: the lines of the data rows
RECURSIVE DataLines(_)
DataLines(rows) ==
    IF rows = <<>> THEN <<>>
    ELSE (IF Head(rows) # <<>> THEN RowLine(Head(rows)) ELSE <<>>)
         \o DataLines(Tail(rows))

\* lines 63-64: the header line
HeaderLine(rows) == IF rows[1] # <<>> THEN RowLine(rows[1]) ELSE <<>>

\* lines 60-71: data_context; sheet_data[0] of a non-subscriptable value
\* raises TypeError
BuildDataContext(sd) ==
    IF ~Truthy(sd)
    THEN Ok(<<"Datos de la encuesta:", "\n">>
            \o <<"No hay datos disponibles de la encuesta.", "\n">>
            \o <<"\n", "---", "\n">>)
    ELSE IF sd.t # "list"
    THEN Raise(Exc("TypeError", <<"'int' object is not subscriptable">>,
                   FALSE, <<>>, << <<"'int' object is not subscriptable">> >>))
    ELSE Ok(<<"Datos de la encuesta:", "\n">>
            \o HeaderLine(sd.rows)
            \o DataLines(Slice(sd.rows, SliceFrom, SliceTo))
            \o <<"\n", "---", "\n">>)

\* lines 75-78: the fixed instruction block
Instructions ==
    <<"Eres un asistente de IA que ayuda a analizar datos de encuestas sobre el bienestar de personas mayores. ",
      "Responde a las preguntas basándote ÚNICAMENTE en los datos de la encuesta proporcionados. ",
      "Si la respuesta no se encuentra en los datos, indica que no tienes suficiente información basada en los datos proporcionados. ",
      "Responde en ESPAÑOL.", "\n", "\n">>

\* lines 74-81: full_prompt
FullPrompt(data_context, question) ==
    Instructions \o data_context \o <<"Pregunta del usuario: ">> \o question

\* a loop that puts each fragment before the text gathered so far
RECURSIVE PartsTextReversed(_)
PartsTextReversed(parts) ==
    IF parts = <<>> THEN <<>>
    ELSE PartsTextReversed(Tail(parts))
         \o (IF Head(parts).has_text THEN Head(parts).text ELSE <<>>)

\* lines 115-117 and 121-123: the text of the parts that have one
RECURSIVE PartsText(_)
PartsText(parts) ==
    IF parts = <<>> THEN <<>>
    ELSE (IF Head(parts).has_text THEN Head(parts).text ELSE <<>>)
         \o PartsText(Tail(parts))

\* lines 119-123: the text of the candidates' nested parts
RECURSIVE CandidatesText(_)
CandidatesText(cands) ==
    IF cands = <<>> THEN <<>>
    ELSE (IF Head(cands).has_content /\ Head(cands).content_has_parts
          THEN PartsText(Head(cands).parts) ELSE <<>>)
         \o CandidatesText(Tail(cands))

\* lines 112-123: the fallback for a response without a text attribute
FallbackText(response) ==
    IF response.has_parts THEN PartsText(response.parts)
    ELSE IF response.has_candidates /\ response.candidates # <<>>
    THEN CandidatesText(response.candidates)
    ELSE <<>>

\* lines 108-123.  response.text is absent, a value, or a property that
\* raises (a blocked response): hasattr lets that exception through.
ExtractText(response) ==
    IF response.text.kind = "raises" THEN Raise(response.text.exc)
    ELSE IF response.text.kind = "value" THEN Ok(response.text.v)
    ELSE Ok(FallbackText(response))

\* lines 133-137: error_details
ErrorDetails(e) ==
    IF e.has_message THEN e.message
    ELSE IF e.args # <<>> THEN e.args[1]
    ELSE <<>>

\* line 138
ErrorText(e) ==
    <<"Error al comunicar con Google Gemini: ">> \o e.str
    \o <<" (">> \o ErrorDetails(e) \o <<")">>

\* a handler that names the provider's error class only
CatchesProviderErrorsOnly(e) == e.type = "GoogleAPIError"

\* line 130: `except Exception` matches every class derived from Exception.
\* The exceptions of the model are of such classes; the print calls of
\* lines 83-85, 125-127 and 131 are taken not to fail.
ExceptionClasses == {"Exception", "TypeError", "ValueError", "GoogleAPIError",
                     "TimeoutError"}
Catches(e) == e.type \in ExceptionClasses

\* lines 130-138: the handler turns a raised exception into the returned
\* string; escaped tells whether an exception leaves get_ai_response
Handle(body) ==
    IF body.raised
    THEN IF Catches(body.exc)
         THEN [ret |-> Str(ErrorText(body.exc)), escaped |-> FALSE,
               exc |-> None, sent |-> body.sent]
         ELSE [ret |-> None, escaped |-> TRUE, exc |-> body.exc,
               sent |-> body.sent]
    ELSE [ret |-> Str(body.value), escaped |-> FALSE, exc |-> None,
          sent |-> body.sent]

\* lines 59-128: the body of the try.  reply is what
\* gemini_model.generate_content does with the prompt: it raises, or
\* returns a response object.  sent is the prompt handed to the endpoint
\* (None when the endpoint is not called).
TryBody(question, sd, reply) ==
    LET ctx == BuildDataContext(sd)
    IN  IF ctx.raised THEN [raised |-> TRUE, exc |-> ctx.exc, sent |-> None]
        ELSE LET full_prompt == FullPrompt(ctx.value, question)
             IN  IF reply.kind = "raise"
                 THEN [raised |-> TRUE, exc |-> reply.exc,
                       sent |-> Str(full_prompt)]
                 ELSE LET text == ExtractText(reply.response)
                      IN  IF text.raised
                          THEN [raised |-> TRUE, exc |-> text.exc,
                                sent |-> Str(full_prompt)]
                          ELSE [raised |-> FALSE, value |-> text.value,
                                sent |-> Str(full_prompt)]

\* a get_ai_response without the check of line 56
ClientReadyUnchecked(loaded, model) == TRUE

\* line 56
ClientReady(loaded, model) == loaded /\ model # None

\* lines 44-138
GetAIResponse(question, sd, loaded, model, reply) ==
    IF ~ClientReady(loaded, model)
    THEN [ret |-> Str(InitErrorText), escaped |-> FALSE, exc |-> None,
          sent |-> None]
    ELSE Handle(TryBody(question, sd, reply))

(***************************************************************************)
(* Inputs: the environment of the client set-up, and the arguments and     *)
(* endpoint behaviour of a call of get_ai_response                         *)
(***************************************************************************)
\* most data rows of a sheet, most parts of a parts list, most candidates
MaxRows == 6
MaxParts == 2
MaxCands == 2

\* all sequences over S of length at most n
SeqsUpTo(S, n) == UNION {[1..k -> S] : k \in 0..n}

ListedNames == { <<"models/", "gemini", "-1.5-pro", "-latest">>,
                 <<"models/", "Gemini", "-1.5-pro">>,
                 <<"models/", "text-bison">> }

InitEnv(key, configure, listing, models, construct, construct_fallback) ==
    [key |-> key, configure |-> configure, listing |-> listing,
     models |-> models, construct |-> construct,
     construct_fallback |-> construct_fallback]

\* a step the set-up does not reach is "n/a"
InitEnvs ==
    {InitEnv(k, "n/a", "n/a", {}, "n/a", "n/a") : k \in {None, Str(<<>>)}}
    \cup {InitEnv(Str(<<"k">>), "raise", "n/a", {}, "n/a", "n/a")}
    \cup {InitEnv(Str(<<"k">>), "ok", "raise", {}, "n/a", f) :
            f \in {"ok", "raise"}}
    \cup {InitEnv(Str(<<"k">>), "ok", "ok", ms, "ok", "n/a") :
            ms \in SUBSET ListedNames}
    \cup {InitEnv(Str(<<"k">>), "ok", "ok", ms, "raise", f) :
            ms \in SUBSET ListedNames, f \in {"ok", "raise"}}

\* an environment in which the set-up succeeds
GoodEnvs == {InitEnv(Str(<<"k">>), "ok", "ok", ms, "ok", "n/a") :
               ms \in {{}, ListedNames}}

Questions == { <<>>, <<" ">>, <<"q", "?">>, <<" ", "q", "?", "\n">> }

\* cells are str; a row is a sequence of cells
RowKinds == { <<>>, << <<"a">> >>, << <<"b">>, <<"c">> >>, << <<>> >> }
Headers == { <<>>, << <<"h1">>, <<"h2">> >> }

\* sheets of at most n data rows, and the empty sheet
Sheets(n) ==
    {JList(<<>>)}
    \cup {JList(<<h>> \o rows) : h \in Headers, rows \in SeqsUpTo(RowKinds, n)}

SmallSheets == Sheets(1) \cup {None, JInt(0), JInt(7)}

Excs == { Exc("GoogleAPIError", <<"403 ", "API key not valid">>, TRUE,
              <<"API key not valid">>, << <<"API key not valid">> >>),
          Exc("ValueError", <<"response blocked">>, FALSE, <<>>,
              << <<"response blocked">> >>),
          Exc("TimeoutError", <<>>, FALSE, <<>>, <<>>) }

Absent == [kind |-> "absent"]
Value(v) == [kind |-> "value", v |-> v]
Raises(e) == [kind |-> "raises", exc |-> e]

Response(text, has_parts, parts, has_candidates, candidates) ==
    [text |-> text, has_parts |-> has_parts, parts |-> parts,
     has_candidates |-> has_candidates, candidates |-> candidates]

Part(has_text, text) == [has_text |-> has_text, text |-> text]
Candidate(has_content, content_has_parts, parts) ==
    [has_content |-> has_content, content_has_parts |-> content_has_parts,
     parts |-> parts]

PartKinds == {Part(FALSE, <<>>), Part(TRUE, <<"x">>), Part(TRUE, <<"y", " ">>)}
PartLists == SeqsUpTo(PartKinds, MaxParts)
CandidateKinds ==
    {Candidate(FALSE, FALSE, <<>>), Candidate(TRUE, FALSE, <<>>)}
    \cup {Candidate(TRUE, TRUE, ps) : ps \in PartLists}
CandidateLists == SeqsUpTo(CandidateKinds, MaxCands)

TextAttrs == {Value(<<>>), Value(<<"hola", " ", "\n">>)}
             \cup {Raises(e) : e \in {x \in Excs : x.type = "ValueError"}}

\* the response objects: with a text attribute; without one and with a
\* parts list; without one and with candidates only
Responses ==
    {Response(t, hp, IF hp THEN ps ELSE <<>>, hc, IF hc THEN cs ELSE <<>>) :
        t \in TextAttrs, hp \in BOOLEAN, hc \in BOOLEAN,
        ps \in {<<Part(TRUE, <<"x">>)>>},
        cs \in {<<Candidate(TRUE, TRUE, <<Part(TRUE, <<"y", " ">>)>>)>>}}
    \cup {Response(Absent, TRUE, ps, hc, IF hc THEN cs ELSE <<>>) :
            ps \in PartLists, hc \in BOOLEAN,
            cs \in {<<>>, <<Candidate(TRUE, TRUE, <<Part(TRUE, <<"y", " ">>)>>)>>}}
    \cup {Response(Absent, FALSE, <<>>, hc, IF hc THEN cs ELSE <<>>) :
            hc \in BOOLEAN, cs \in CandidateLists}

ReplyRaise(e) == [kind |-> "raise", exc |-> e]
ReplyResponse(r) == [kind |-> "response", response |-> r]

Replies == {ReplyRaise(e) : e \in Excs} \cup {ReplyResponse(r) : r \in Responses}
SmallReplies ==
    {ReplyRaise(e) : e \in Excs}
    \cup {ReplyResponse(Response(Value(<<"hola", " ", "\n">>), FALSE, <<>>, FALSE, <<>>))}

(***************************************************************************)
(* The Answer Generator as a process: import, then calls                   *)
(***************************************************************************)
\* no call of get_ai_response is in progress
NoCall == [stage |-> "idle"]

Pending(q, sd, reply) ==
    [stage |-> "pending", question |-> q, sheet_data |-> sd, reply |-> reply,
     result |-> None]

\* lines 9-10, before the try of line 11
ClientBeforeImport ==
    /\ ai_pc = "import"
    /\ google_api_key_loaded = FALSE
    /\ gemini_model = None
    /\ init_env \in InitEnvs

\* the globals after the module-level code ran in a good environment
ClientReadyInit ==
    /\ ai_pc = "ready"
    /\ init_env \in GoodEnvs
    /\ google_api_key_loaded = ModuleInit(init_env).loaded
    /\ gemini_model = ModuleInit(init_env).model

\* lines 9-42 run once, when the module is imported
ImportModule ==
    /\ ai_pc = "import"
    /\ ai_pc' = "ready"
    /\ google_api_key_loaded' = ModuleInit(init_env).loaded
    /\ gemini_model' = ModuleInit(init_env).model
    /\ UNCHANGED << init_env, call, sessionVars, fetchVars >>

\* a caller is about to call get_ai_response(question, sheet_data)
Request(Qs, Sds, Rs) ==
    /\ ai_pc = "ready"
    /\ call.stage \in {"idle", "returned"}
    /\ \E q \in Qs, sd \in Sds, r \in Rs : call' = Pending(q, sd, r)
    /\ UNCHANGED << clientVars, sessionVars, fetchVars >>

\* get_ai_response runs and returns
CallGetAIResponse ==
    /\ ai_pc = "ready"
    /\ call.stage = "pending"
    /\ call' = [call EXCEPT
                  !.stage = "returned",
                  !.result = GetAIResponse(call.question, call.sheet_data,
                                           google_api_key_loaded, gemini_model,
                                           call.reply)]
    /\ UNCHANGED << clientVars, sessionVars, fetchVars >>

(***************************************************************************)
(* minimal_app.py: the dashboard                                           *)
(***************************************************************************)
\* str(n) of the return codes that occur
IntStr(n) == IF n = 0 THEN <<"0">> ELSE IF n = 1 THEN <<"1">> ELSE <<"2">>

Session(sd, err, q, ans) ==
    [sheet_data |-> sd, error_message |-> err, user_question |-> q,
     ai_response |-> ans]

\* the four session values as one record
CurrentSession == Session(sheet_data, error_message, user_question, ai_response)

\* lines 26-33
InitialSession == Session(None, None, Str(<<>>), None)

Shown(level, text) == [level |-> level, text |-> text]

\* a load that forgets to reset the loaded data
LoadClearKeepsData(st) ==
    [st EXCEPT !.error_message = None, !.ai_response = None]

\* a load that forgets to reset the last load error
LoadClearKeepsError(st) ==
    [st EXCEPT !.sheet_data = None, !.ai_response = None]

\* a load that forgets to reset the last answer
LoadClearKeepsAnswer(st) ==
    [st EXCEPT !.sheet_data = None, !.error_message = None]

\* lines 56-58
LoadClear(st) ==
    [st EXCEPT !.sheet_data = None, !.error_message = None,
               !.ai_response = None]

\* lines 68-77: returncode 0; file is the state of temp_sheet_data.json
ReadDataFile(st, run) ==
    IF run.file.kind = "missing"
    THEN [st EXCEPT !.error_message =
            Str(<<"Data file not found. Script stdout: ">> \o Strip(run.stdout)
                \o <<", stderr: ">> \o Strip(run.stderr))]
    ELSE IF run.file.kind = "invalid"
    THEN [st EXCEPT !.error_message =
            Str(<<"Error decoding JSON: ">> \o run.file.exc.str)]
    ELSE IF run.file.kind = "unreadable"
    THEN [st EXCEPT !.error_message =
            Str(<<"Error reading data file: ">> \o run.file.exc.str)]
    ELSE [st EXCEPT !.sheet_data = run.file.value]

\* line 79
ScriptFailed(st, run) ==
    [st EXCEPT !.error_message =
        Str(<<"Sheet data script failed (Code ">> \o IntStr(run.returncode)
            \o <<"):", "\n", "STDOUT:">> \o Strip(run.stdout)
            \o <<"\n", "STDERR:">> \o Strip(run.stderr))]

\* lines 60-83.  run is what subprocess.run does: it raises
\* FileNotFoundError, raises another exception, or returns a finished
\* process.
RunFetch(st, run) ==
    IF run.kind = "FileNotFoundError"
    THEN [st EXCEPT !.error_message =
            Str(<<"Error: Command '", "python", "' or 'fetch_data.py' not found.">>)]
    ELSE IF run.kind = "raise"
    THEN [st EXCEPT !.error_message =
            Str(<<"Unexpected error running script: ">> \o run.exc.str)]
    ELSE IF run.returncode = 0 THEN ReadDataFile(st, run)
    ELSE ScriptFailed(st, run)

\* lines 67 and 85-86: the messages of a load
LoadShown(st, run) ==
    (IF run.kind = "exit" /\ run.returncode = 0
     THEN <<Shown("success", <<"Sheet data script success: ">> \o Strip(run.stdout))>>
     ELSE <<>>)
    \o (IF Truthy(st.error_message)
        THEN <<Shown("error", st.error_message.s)>> ELSE <<>>)

\* lines 88-128: which preview is rendered
Preview(sd) ==
    IF ~Truthy(sd) THEN "none"
    ELSE IF sd.t = "list" THEN "table"
    ELSE "json"

\* lines 55-130: the load button handler
LoadHandler(st, run) ==
    LET new == RunFetch(LoadClear(st), run)
    IN  [st |-> new, shown |-> LoadShown(new, run),
         preview |-> Preview(new.sheet_data), called |-> FALSE]

\* line 144
AnalyzeClear(st) == [st EXCEPT !.ai_response = None]

\* an analyze that tests the question without strip()
AnalyzeRejectionNoStrip(st, module_loaded, loaded, model) ==
    IF ~module_loaded THEN "module"
    ELSE IF ~loaded \/ ~Truthy(model) THEN "client"
    ELSE IF ~Truthy(st.sheet_data) THEN "data"
    ELSE IF ~Truthy(st.user_question) THEN "question"
    ELSE ""

\* lines 145-152: why an analyze click does not reach get_ai_response
\* ("" when it does)
AnalyzeRejection(st, module_loaded, loaded, model) ==
    IF ~module_loaded THEN "module"
    ELSE IF ~loaded \/ ~Truthy(model) THEN "client"
    ELSE IF ~Truthy(st.sheet_data) THEN "data"
    ELSE IF ~Truthy(Str(Strip(st.user_question.s))) THEN "question"
    ELSE ""

\* lines 146, 148, 150, 152
RejectionShown(why) ==
    CASE why = "module" ->
           Shown("error", <<"AI module not loaded. Cannot analyze. Error: ">>)
      [] why = "client" ->
           Shown("error", <<"AI not initialized. Check API key and AI status in sidebar.">>)
      [] why = "data" ->
           Shown("warning", <<"Por favor, cargue los datos primero.">>)
      [] why = "question" ->
           Shown("warning", <<"Por favor, formule una pregunta.">>)

\* lines 155-161: the call, and the handler of an exception that leaves it
AnalyzeCall(st, loaded, model, reply) ==
    LET r == GetAIResponse(st.user_question.s, st.sheet_data, loaded, model,
                           reply)
    IN  IF r.escaped
        THEN [st EXCEPT !.ai_response =
                Str(<<"Error durante el análisis con IA: ">> \o r.exc.str)]
        ELSE [st EXCEPT !.ai_response = r.ret]

\* lines 143-165: the analyze button handler
AnalyzeHandler(st, module_loaded, loaded, model, reply) ==
    LET cleared == AnalyzeClear(st)
        why == AnalyzeRejection(cleared, module_loaded, loaded, model)
    IN  IF why # ""
        THEN [st |-> cleared, shown |-> <<RejectionShown(why)>>,
              preview |-> "none", called |-> FALSE]
        ELSE LET new == AnalyzeCall(cleared, loaded, model, reply)
             IN  [st |-> new,
                  shown |-> IF Truthy(new.ai_response)
                            THEN <<Shown("markdown", new.ai_response.s)>>
                            ELSE <<>>,
                  preview |-> "none", called |-> TRUE]

\* the outcomes of subprocess.run and the state of temp_sheet_data.json
Exit(rc, out, err, file) ==
    [kind |-> "exit", returncode |-> rc, stdout |-> out, stderr |-> err,
     file |-> file]

FileValues == {None, JInt(7), JList(<<>>), JList(<< <<>> >>),
               JList(<< << <<"h1">>, <<"h2">> >> >>),
               JList(<< << <<"h1">>, <<"h2">> >>, << <<"b">>, <<"c">> >> >>)}

Files ==
    {[kind |-> "missing"],
     [kind |-> "invalid",
      exc |-> Exc("JSONDecodeError", <<"Expecting value: line 1 column 1 (char 0)">>,
                  FALSE, <<>>, <<>>)],
     [kind |-> "unreadable",
      exc |-> Exc("PermissionError", <<>>, FALSE, <<>>, <<>>)]}
    \cup {[kind |-> "valid", value |-> v] : v \in FileValues}

SuccessLine ==
    <<"Data successfully fetched and saved to ", "temp_sheet_data.json", "\n">>

Runs ==
    {[kind |-> "FileNotFoundError"],
     [kind |-> "raise", exc |-> Exc("PermissionError", <<>>, FALSE, <<>>, <<>>)]}
    \cup {Exit(rc, <<>>, <<"fetch_data.py: An unexpected error occurred: ", "\n">>,
               [kind |-> "missing"]) : rc \in {1, 2}}
    \cup {Exit(0, SuccessLine, <<>>, f) : f \in Files}

DashQuestions == { <<>>, <<" ", "\n">>, <<"q", "?">> }

\* the client states the dashboard can start with: the import failed, or
\* the module-level code of ai_processor ran in one of these environments
DashEnvs ==
    {InitEnv(None, "n/a", "n/a", {}, "n/a", "n/a"),
     InitEnv(Str(<<"k">>), "ok", "raise", {}, "n/a", "ok"),
     InitEnv(Str(<<"k">>), "ok", "ok", ListedNames, "ok", "n/a")}

DashInit ==
    /\ sheet_data = InitialSession.sheet_data
    /\ error_message = InitialSession.error_message
    /\ user_question = InitialSession.user_question
    /\ ai_response = InitialSession.ai_response
    /\ last = [kind |-> "start"]
    /\ answered_on = None
    /\ ai_pc = "ready"
    /\ init_env \in DashEnvs
    /\ ai_module_loaded \in BOOLEAN
    /\ google_api_key_loaded =
         (ai_module_loaded /\ ModuleInit(init_env).loaded)
    /\ gemini_model =
         (IF ai_module_loaded THEN ModuleInit(init_env).model ELSE None)
    /\ call = NoCall

\* the session state after a handler returned record r
SetSession(r) ==
    /\ sheet_data' = r.st.sheet_data
    /\ error_message' = r.st.error_message
    /\ user_question' = r.st.user_question
    /\ ai_response' = r.st.ai_response

\* a click on "Cargar datos de encuestas"
Load ==
    \E run \in Runs :
        LET r == LoadHandler(CurrentSession, run)
        IN  /\ SetSession(r)
            /\ last' = [kind |-> "load", pre |-> CurrentSession, run |-> run,
                        shown |-> r.shown, called |-> r.called]
            /\ answered_on' = IF r.st.ai_response = None THEN None
                              ELSE answered_on
            /\ UNCHANGED << ai_module_loaded, clientVars, call, fetchVars >>

\* a click on "Analizar con IA"
Analyze ==
    \E reply \in SmallReplies :
        LET r == AnalyzeHandler(CurrentSession, ai_module_loaded,
                                google_api_key_loaded, gemini_model, reply)
        IN  /\ SetSession(r)
            /\ last' = [kind |-> "analyze", pre |-> CurrentSession,
                        run |-> None, shown |-> r.shown, called |-> r.called]
            /\ answered_on' = IF r.st.ai_response = None THEN None
                              ELSE IF r.called THEN sheet_data
                              ELSE answered_on
            /\ UNCHANGED << ai_module_loaded, clientVars, call, fetchVars >>

\* line 136: the text area returns what the user typed
EditQuestion ==
    \E q \in DashQuestions :
        /\ user_question' = Str(q)
        /\ last' = [kind |-> "edit", pre |-> CurrentSession, run |-> None,
                    shown |-> <<>>, called |-> FALSE]
        /\ UNCHANGED << sheet_data, error_message, ai_response, answered_on,
                        ai_module_loaded, clientVars, call, fetchVars >>

(***************************************************************************)
(* fetch_data.py: fetch_and_save_data, one step per call that may raise    *)
(***************************************************************************)
SystemExit(code) == [type |-> "SystemExit", code |-> code, str |-> IntStr(code)]

\* json.loads of the credential text: an object is "{" ... "}"
JsonLoads(s) ==
    IF Len(s) >= 2 /\ s[1] = "{" /\ s[Len(s)] = "}"
    THEN Ok([t |-> "dict", body |-> SubSeq(s, 2, Len(s) - 1)])
    ELSE Raise(Exc("JSONDecodeError", <<"Expecting value">>, FALSE, <<>>, <<>>))

\* handlers whose last clause is a bare `except:`, which catches the
\* SystemExit of sys.exit too
OuterHandlerBareExcept(e) ==
    IF e.type = "FileNotFoundError"
    THEN [caught |-> TRUE,
          text |-> <<"fetch_data.py: Error: Credentials file not found at ",
                     "credentials/credentials.json", "\n">>]
    ELSE IF e.type = "SpreadsheetNotFound"
    THEN [caught |-> TRUE,
          text |-> <<"fetch_data.py: Error: Spreadsheet with ID '", "ID",
                     "' not found or permission issue.", "\n">>]
    ELSE [caught |-> TRUE,
          text |-> <<"fetch_data.py: An unexpected error occurred: ">>
                   \o e.str \o <<"\n">>]

\* lines 62-70: the handlers of the outer try; SystemExit and other
\* classes not derived from Exception pass through
OuterHandler(e) ==
    IF e.type = "FileNotFoundError"
    THEN [caught |-> TRUE,
          text |-> <<"fetch_data.py: Error: Credentials file not found at ",
                     "credentials/credentials.json", "\n">>]
    ELSE IF e.type = "SpreadsheetNotFound"
    THEN [caught |-> TRUE,
          text |-> <<"fetch_data.py: Error: Spreadsheet with ID '", "ID",
                     "' not found or permission issue.", "\n">>]
    ELSE IF e.type \notin {"SystemExit", "KeyboardInterrupt"}
    THEN [caught |-> TRUE,
          text |-> <<"fetch_data.py: An unexpected error occurred: ">>
                   \o e.str \o <<"\n">>]
    ELSE [caught |-> FALSE, text |-> <<>>]

\* an exception raised inside the try of line 21, with `written` on the
\* error stream: a handler adds its message and exits 1; SystemExit ends
\* the process with its code; any other leaves the function
RaiseInTry(e, written) ==
    LET h == OuterHandler(e)
    IN  /\ f_pc' = "exited"
        /\ IF h.caught
           THEN /\ stderr' = written \o h.text
                /\ exit_code' = 1
                /\ escaped' = FALSE
           ELSE IF e.type = "SystemExit"
           THEN /\ stderr' = written
                /\ exit_code' = e.code
                /\ escaped' = FALSE
           ELSE /\ stderr' = written
                /\ exit_code' = 1
                /\ escaped' = TRUE

\* lines 29-34: the handlers of the inner try write a message and call
\* sys.exit(1), whose SystemExit is raised inside the outer try
InnerHandler(e) ==
    IF e.type = "JSONDecodeError"
    THEN <<"fetch_data.py: Error: GCP_CREDENTIALS_JSON environment variable is not valid JSON.", "\n">>
    ELSE <<"fetch_data.py: Error loading credentials from env var: ">>
         \o e.str \o <<"\n">>

FetchExcs ==
    {Exc("FileNotFoundError", <<"[Errno 2] No such file or directory">>,
         FALSE, <<>>, <<>>),
     Exc("SpreadsheetNotFound", <<>>, FALSE, <<>>, <<>>),
     Exc("APIError", <<"403">>, FALSE, <<>>, <<>>)}

CredentialTexts == {None, Str(<<>>), Str(<<"{", "bad">>),
                    Str(<<"{", "\"type\": \"service_account\"", "}">>)}

\* what worksheet.get_all_values returns
FetchedValues ==
    {None, JList(<<>>), JList(<< <<>> >>),
     JList(<< << <<"h1">>, <<"h2">> >> >>),
     JList(<< << <<"h1">>, <<"h2">> >>, << <<"b">>, <<"c">> >> >>),
     JList(<< << <<"h1">>, <<"h2">> >>, <<>>, << <<"a">> >> >>)}

\* get_all_values has not returned
NotFetched == [t |-> "unset"]

OldFiles == {[kind |-> "missing"],
             [kind |-> "valid", value |-> JList(<< << <<"old">> >> >>)]}

Client(source) == [t |-> "client", source |-> source]

FetchInit ==
    /\ f_pc = "start"
    /\ f_env \in CredentialTexts
    /\ gc = None
    /\ fetched = NotFetched
    /\ all_values = None
    /\ out_file \in OldFiles
    /\ stdout = <<>>
    /\ stderr = <<>>
    /\ exit_code = None
    /\ escaped = FALSE

fetchLocals == << f_env, gc, fetched, all_values, out_file, stdout >>

\* lines 22-34: the credential comes from GCP_CREDENTIALS_JSON
CredentialFromEnv ==
    /\ f_pc = "start"
    /\ Truthy(f_env)
    /\ LET parsed == JsonLoads(f_env.s)
       IN  \/ /\ parsed.raised
              /\ RaiseInTry(SystemExit(1), stderr \o InnerHandler(parsed.exc))
              /\ UNCHANGED fetchLocals
           \/ /\ ~parsed.raised
              /\ \E e \in FetchExcs :
                    RaiseInTry(SystemExit(1), stderr \o InnerHandler(e))
              /\ UNCHANGED fetchLocals
           \/ /\ ~parsed.raised
              /\ gc' = Client("env")
              /\ f_pc' = "open"
              /\ UNCHANGED << f_env, fetched, all_values, out_file, stdout, stderr,
                              exit_code, escaped >>
    /\ UNCHANGED << sessionVars, clientVars, call >>

\* lines 35-37: the credential comes from the file
CredentialFromFile ==
    /\ f_pc = "start"
    /\ ~Truthy(f_env)
    /\ \/ /\ gc' = Client("file")
          /\ f_pc' = "open"
          /\ UNCHANGED << f_env, fetched, all_values, out_file, stdout, stderr,
                          exit_code, escaped >>
       \/ /\ \E e \in FetchExcs : RaiseInTry(e, stderr)
          /\ UNCHANGED fetchLocals
    /\ UNCHANGED << sessionVars, clientVars, call >>

\* lines 41 and 45: open the spreadsheet and select its first worksheet
OpenSpreadsheet ==
    /\ f_pc = "open"
    /\ \/ /\ f_pc' = "get_all_values"
          /\ UNCHANGED << fetchLocals, stderr, exit_code, escaped >>
       \/ /\ \E e \in FetchExcs : RaiseInTry(e, stderr)
          /\ UNCHANGED fetchLocals
    /\ UNCHANGED << sessionVars, clientVars, call >>

\* lines 49-54
GetAllValues ==
    /\ f_pc = "get_all_values"
    /\ \/ /\ \E v \in FetchedValues :
                /\ fetched' = v
                /\ all_values' = IF ~Truthy(v) THEN JList(<<>>) ELSE v
          /\ f_pc' = "write"
          /\ UNCHANGED << f_env, gc, out_file, stdout, stderr, exit_code,
                          escaped >>
       \/ /\ \E e \in FetchExcs : RaiseInTry(e, stderr)
          /\ UNCHANGED fetchLocals
    /\ UNCHANGED << sessionVars, clientVars, call >>

\* lines 56-57: open() fails and leaves the file, or json.dump writes it,
\* or json.dump fails after open() truncated it
WriteOutput ==
    /\ f_pc = "write"
    /\ \/ /\ out_file' = [kind |-> "valid", value |-> all_values]
          /\ f_pc' = "report"
          /\ UNCHANGED << f_env, gc, fetched, all_values, stdout, stderr,
                          exit_code, escaped >>
       \/ /\ \E e \in FetchExcs : RaiseInTry(e, stderr)
          /\ out_file' \in {out_file, [kind |-> "invalid"]}
          /\ UNCHANGED << f_env, gc, fetched, all_values, stdout >>
    /\ UNCHANGED << sessionVars, clientVars, call >>

\* lines 59-60: the success line, then sys.exit(0) inside the try.  Writes
\* to the standard streams are taken not to fail.
ReportSuccess ==
    /\ f_pc = "report"
    /\ stdout' = stdout \o SuccessLine
    /\ RaiseInTry(SystemExit(0), stderr)
    /\ UNCHANGED << f_env, gc, fetched, all_values, out_file >>
    /\ UNCHANGED << sessionVars, clientVars, call >>

(***************************************************************************)
(* Specifications                                                          *)
(***************************************************************************)
\* the parts of the state a specification does not use
SessionIdle ==
    /\ sheet_data = InitialSession.sheet_data
    /\ error_message = InitialSession.error_message
    /\ user_question = InitialSession.user_question
    /\ ai_response = InitialSession.ai_response
    /\ last = [kind |-> "start"]
    /\ answered_on = None
    /\ ai_module_loaded = TRUE

FetchIdle ==
    /\ f_pc = "idle"
    /\ f_env = None
    /\ gc = None
    /\ fetched = NotFetched
    /\ all_values = None
    /\ out_file = [kind |-> "missing"]
    /\ stdout = <<>>
    /\ stderr = <<>>
    /\ exit_code = None
    /\ escaped = FALSE

\* the dashboard session: load and analyze clicks, edits of the question
Init == DashInit /\ FetchIdle
Next == Load \/ Analyze \/ EditQuestion
Spec == Init /\ [][Next]_vars

\* ai_processor: the module is imported, then get_ai_response is called
ClientInit == ClientBeforeImport /\ call = NoCall /\ SessionIdle /\ FetchIdle
ClientNext ==
    \/ ImportModule
    \/ Request(Questions, SmallSheets, SmallReplies)
    \/ CallGetAIResponse
SpecClient == ClientInit /\ [][ClientNext]_vars

\* get_ai_response on every sheet of at most MaxRows data rows
PromptInit ==
    /\ ClientReadyInit
    /\ call \in {Pending(<<"q", "?">>, sd, r) :
                   sd \in Sheets(MaxRows),
                   r \in {ReplyResponse(Response(Value(<<"hola", " ", "\n">>),
                                                 FALSE, <<>>, FALSE, <<>>))}}
    /\ SessionIdle /\ FetchIdle
PromptNext == CallGetAIResponse
SpecPrompt == PromptInit /\ [][PromptNext]_vars

\* get_ai_response on every endpoint reply, and on every kind of sheet
\* value with the replies that raise or carry a text attribute
ExtractInit ==
    /\ ClientReadyInit
    /\ call \in
         {Pending(<<"q", "?">>,
                  JList(<< << <<"h1">>, <<"h2">> >>, << <<"a">> >> >>), r) :
            r \in Replies}
         \cup {Pending(q, sd, r) :
                 q \in {<<>>, <<"q", "?">>},
                 sd \in {JList(<<>>), JInt(7), None},
                 r \in {x \in Replies :
                          x.kind = "response" => x.response.text.kind # "absent"}}
    /\ SessionIdle /\ FetchIdle
ExtractNext == CallGetAIResponse
SpecExtract == ExtractInit /\ [][ExtractNext]_vars

\* one run of fetch_data.py
FetchSpecInit ==
    /\ FetchInit
    /\ SessionIdle
    /\ ai_pc = "idle" /\ init_env = None
    /\ google_api_key_loaded = FALSE /\ gemini_model = None
    /\ call = NoCall
FetchNext ==
    \/ CredentialFromEnv
    \/ CredentialFromFile
    \/ OpenSpreadsheet
    \/ GetAllValues
    \/ WriteOutput
    \/ ReportSuccess
SpecFetch == FetchSpecInit /\ [][FetchNext]_vars

(***************************************************************************)
(* Properties of the dashboard session (specification Spec)                *)
(***************************************************************************)
\* the fetch of a load failed: the subprocess could not be launched, exited
\* non-zero, or left no output file or one that is not valid JSON
FetchFailed(run) ==
    \/ run.kind \in {"FileNotFoundError", "raise"}
    \/ /\ run.kind = "exit"
       /\ run.returncode # 0 \/ run.file.kind \in {"missing", "invalid"}

NonEmptyStr(v) == v.t = "str" /\ Len(v.s) > 0

\* C1 as stated: a load whose fetch fails records a non-empty error string
\* and leaves the loaded data equal to the value it had before the load.
C1_FailedLoadKeepsData ==
    (last.kind = "load" /\ FetchFailed(last.run))
        => /\ NonEmptyStr(error_message)
           /\ sheet_data = last.pre.sheet_data

\* C1 amended: a load whose fetch fails records a non-empty error string
\* and leaves the loaded data null, whatever it was before the load.
C1_FailedLoadClearsData ==
    (last.kind = "load" /\ FetchFailed(last.run))
        => /\ NonEmptyStr(error_message)
           /\ sheet_data = None

\* a failed load that started with a sheet loaded
C1_Witness ==
    /\ last.kind = "load"
    /\ FetchFailed(last.run)
    /\ last.pre.sheet_data # None
    /\ Truthy(last.pre.sheet_data)

\* the analyze click is to be rejected: no data, or a blank question
AnalyzeRejected(st) ==
    ~Truthy(st.sheet_data) \/ Strip(st.user_question.s) = <<>>

\* C2 as stated: an analyze with absent data or a blank question does not
\* call the Answer Generator and leaves the four session values unchanged.
C2_RejectedAnalyzeIsNoOp ==
    (last.kind = "analyze" /\ AnalyzeRejected(last.pre))
        => /\ ~last.called
           /\ CurrentSession = last.pre

\* C2 amended: an analyze with absent data or a blank question does not call
\* the Answer Generator, leaves loaded data, load error and question
\* unchanged and sets the last answer to null; it shows one message, a
\* warning when the AI client is initialized and an error otherwise.
C2_RejectedAnalyzeClearsAnswer ==
    (last.kind = "analyze" /\ AnalyzeRejected(last.pre))
        => /\ ~last.called
           /\ sheet_data = last.pre.sheet_data
           /\ error_message = last.pre.error_message
           /\ user_question = last.pre.user_question
           /\ ai_response = None
           /\ Len(last.shown) = 1
           /\ last.shown[1].level =
                (IF ai_module_loaded /\ google_api_key_loaded
                    /\ gemini_model # None
                 THEN "warning" ELSE "error")

\* an analyze rejected for a whitespace-only question while an answer was
\* on display
C2_Witness ==
    /\ last.kind = "analyze"
    /\ Truthy(last.pre.sheet_data)
    /\ Len(last.pre.user_question.s) > 0
    /\ Strip(last.pre.user_question.s) = <<>>
    /\ last.pre.ai_response # None
    /\ ~last.called

\* C10: a non-null last answer was computed by an analyze from the sheet
\* data now in the session, and every load leaves the last answer null.
C10_AnswerMatchesData ==
    /\ ai_response # None => (answered_on # None /\ answered_on = sheet_data)
    /\ last.kind = "load" => ai_response = None

\* a load that replaced the data while an answer to the old data was held
C10_Witness ==
    /\ last.kind = "load"
    /\ last.pre.ai_response # None
    /\ sheet_data # None
    /\ sheet_data # last.pre.sheet_data

\* the load read the output file: the session holds the file's parsed
\* content and no error
LoadedFromFile ==
    /\ last.run.kind = "exit"
    /\ last.run.returncode = 0
    /\ last.run.file.kind = "valid"
    /\ sheet_data = last.run.file.value
    /\ error_message = None

\* the load failed: the session holds a non-empty error and no data
LoadedError == NonEmptyStr(error_message) /\ sheet_data = None

\* C11: loaded data and last load error are never both non-null; a load
\* ends in exactly one of two outcomes, the data set to the parsed content
\* of the file with the error null, or the error set to a non-empty string
\* with the data null; an analyze changes neither.
C11_DataAndErrorExclusive ==
    /\ ~(sheet_data # None /\ error_message # None)
    /\ last.kind = "load" => (LoadedFromFile <=> ~LoadedError)
    /\ last.kind = "analyze" =>
         /\ sheet_data = last.pre.sheet_data
         /\ error_message = last.pre.error_message

\* a load that succeeded after one that failed: the old error is gone
C11_Witness ==
    /\ last.kind = "load"
    /\ last.pre.error_message # None
    /\ LoadedFromFile
    /\ Truthy(sheet_data)

(***************************************************************************)
(* Properties of the client set-up and of get_ai_response                  *)
(* (specification SpecClient)                                              *)
(***************************************************************************)
Returned == call.stage = "returned"

\* the fixed string of a client that is not initialized
FixedErrorString ==
    Str(<<"Error: El cliente de Google Gemini no está inicializado correctamente. Verifica la clave API.">>)

\* C3: when the flag is false or the model object is absent, a call of
\* get_ai_response returns the fixed error string, whatever the question
\* and the sheet data, and does not reach the endpoint.
C3_UninitializedReturnsFixedString ==
    (Returned /\ (~google_api_key_loaded \/ gemini_model = None))
        => /\ call.result.ret = FixedErrorString
           /\ call.result.sent = None
           /\ ~call.result.escaped

\* a call with an empty question and empty data on a failed client
C3_Witness ==
    /\ Returned
    /\ ~google_api_key_loaded
    /\ call.question = <<>>
    /\ call.sheet_data = JList(<<>>)
    /\ call.reply.kind = "response"

\* the three start-up failures: the key is missing, the key is
\* rejected when the client is configured, the model listing fails
KeyMissing == ~Truthy(init_env.key)
ConfigureFailed == Truthy(init_env.key) /\ init_env.configure = "raise"
ListingFailed ==
    Truthy(init_env.key) /\ init_env.configure = "ok"
    /\ init_env.listing = "raise"

\* C4 as stated: each of the three start-up failures leaves the client not
\* initialized, and every later call returns the fixed string without a
\* network call.
C4_EveryFailureLeavesClientFailed ==
    (ai_pc = "ready" /\ (KeyMissing \/ ConfigureFailed \/ ListingFailed))
        => /\ ~google_api_key_loaded
           /\ gemini_model = None
           /\ Returned => (call.result.ret = FixedErrorString
                           /\ call.result.sent = None)

\* C4 amended: a missing key and a failure to configure the client leave it
\* not initialized, and later calls return the fixed string without a
\* network call; a model-listing failure falls back to the model
\* "gemini-pro" and leaves the client initialized, so that later calls
\* send their prompt to the endpoint, unless the construction of the
\* fallback model fails too.
C4_ListingFailureFallsBack ==
    ai_pc = "ready" =>
        /\ (KeyMissing \/ ConfigureFailed
            \/ (ListingFailed /\ init_env.construct_fallback = "raise"))
             => /\ ~google_api_key_loaded
                /\ gemini_model = None
                /\ Returned => (call.result.ret = FixedErrorString
                                /\ call.result.sent = None)
        /\ (ListingFailed /\ init_env.construct_fallback = "ok")
             => /\ google_api_key_loaded
                /\ gemini_model # None
                /\ gemini_model.model_name = "gemini-pro"
                /\ (Returned /\ call.sheet_data.t \in {"None", "list"})
                     => (call.result.sent # None
                         /\ call.result.ret # FixedErrorString)

\* a call that reached the endpoint after the model listing failed
C4_Witness ==
    /\ ai_pc = "ready"
    /\ ListingFailed
    /\ Returned
    /\ call.result.sent # None

(***************************************************************************)
(* Properties of the data excerpt (specification SpecPrompt)               *)
(***************************************************************************)
\* the text of s up to the first token sep, and the text after it
RECURSIVE UpTo(_, _)
UpTo(s, sep) ==
    IF s = <<>> \/ Head(s) = sep THEN <<>>
    ELSE <<Head(s)>> \o UpTo(Tail(s), sep)

\* s.split(sep): the pieces between the occurrences of the token sep
RECURSIVE Split(_, _)
Split(s, sep) ==
    LET first == UpTo(s, sep)
    IN  IF Len(first) = Len(s) THEN <<first>>
        ELSE <<first>> \o Split(SubSeq(s, Len(first) + 2, Len(s)), sep)

\* the lines of a text in which every line ends with "\n"
Lines(s) == LET pieces == Split(s, "\n")
            IN  SubSeq(pieces, 1, Len(pieces) - 1)

\* the cells of a line: the pieces between ", ", each cell one str
CellsOf(line) == Split(line, ", ")

\* the data excerpt of the prompt sent to the endpoint: what stands between
\* the title line and the "\n---\n" separator
Excerpt(prompt, question) ==
    SubSeq(prompt, Len(Instructions) + 3,
           Len(prompt) - Len(question) - 4)

\* the excerpt frame: instructions, title line, separator, question line
WellFramed(prompt, question) ==
    /\ Len(prompt) >= Len(Instructions) + Len(question) + 6
    /\ SubSeq(prompt, 1, Len(Instructions)) = Instructions
    /\ SubSeq(prompt, Len(Instructions) + 1, Len(Instructions) + 2)
         = <<"Datos de la encuesta:", "\n">>
    /\ SubSeq(prompt, Len(prompt) - Len(question) - 3, Len(prompt))
         = <<"\n", "---", "\n", "Pregunta del usuario: ">> \o question

\* the rows of the call's sheet, its data rows, and the excerpt's lines as
\* rows of cells
CallRows == call.sheet_data.rows
DataRows == SubSeq(CallRows, 2, Len(CallRows))
ExcerptRows ==
    LET lines == Lines(Excerpt(call.result.sent.s, call.question))
    IN  [i \in 1..Len(lines) |-> CellsOf(lines[i])]

Min(a, b) == IF a < b THEN a ELSE b

\* a returned call on a sheet with a non-empty header
HeadedCall ==
    /\ Returned
    /\ call.sheet_data.t = "list"
    /\ Len(CallRows) >= 1
    /\ CallRows[1] # <<>>

\* C5 as stated: with a non-empty header and n data rows the excerpt is the
\* header line followed by exactly the first min(n, 5) data rows, one line
\* per row, cells comma-joined in order.
C5_ExcerptHasFirstFiveRows ==
    HeadedCall =>
        /\ WellFramed(call.result.sent.s, call.question)
        /\ ExcerptRows
             = <<CallRows[1]>> \o SubSeq(DataRows, 1, Min(Len(DataRows), 5))

\* the cells of a line are the cells of row r
IsLineOf(cells, r) ==
    Len(cells) = Len(r) /\ \A j \in 1..Len(r) : cells[j] = r[j]

\* C5 amended: the excerpt is the header line followed by one line for
\* each non-empty row among the first min(n, 5) data rows, in row order,
\* cells comma-joined in order; no row past the sixth input row appears and
\* at most five data-row lines appear, exactly five only when the first
\* five data rows are all non-empty.
C5_ExcerptHasNonEmptyOfFirstFive ==
    HeadedCall =>
        LET first == SubSeq(DataRows, 1, Min(Len(DataRows), 5))
            kept == SelectSeq(first, LAMBDA r : r # <<>>)
        IN  /\ WellFramed(call.result.sent.s, call.question)
            /\ Len(ExcerptRows) = 1 + Len(kept)
            /\ Len(ExcerptRows) <= 6
            /\ IsLineOf(ExcerptRows[1], CallRows[1])
            /\ \A k \in 1..Len(kept) : IsLineOf(ExcerptRows[k + 1], kept[k])
            /\ (Len(DataRows) > 5 /\ kept = first) => Len(ExcerptRows) = 6

\* a call on a sheet with more than five data rows, an empty row among the
\* first five and a non-empty row after the fifth
C5_Witness ==
    /\ HeadedCall
    /\ Len(DataRows) > 5
    /\ \E i \in 1..5 : DataRows[i] = <<>>
    /\ DataRows[6] # <<>>

\* the number of non-empty rows of a sequence of rows
RECURSIVE CountNonEmpty(_)
CountNonEmpty(rows) ==
    IF rows = <<>> THEN 0
    ELSE (IF Head(rows) = <<>> THEN 0 ELSE 1) + CountNonEmpty(Tail(rows))

\* C9: a row that is an empty sequence contributes no line to the excerpt,
\* not even a blank one, and the lines of the non-empty rows keep their
\* relative order: the excerpt has as many lines as the rows read (the
\* header and the rows of the slice) have non-empty rows, and its k-th line
\* is the k-th non-empty row.
C9_EmptyRowsAreSkipped ==
    (Returned /\ call.sheet_data.t = "list" /\ Len(CallRows) >= 1) =>
        LET read == SubSeq(CallRows, 1, Min(Len(CallRows), 6))
            kept == SelectSeq(read, LAMBDA r : r # <<>>)
        IN  /\ WellFramed(call.result.sent.s, call.question)
            /\ Len(ExcerptRows) = CountNonEmpty(read)
            /\ \A k \in 1..Len(ExcerptRows) : ExcerptRows[k] = kept[k]

\* a call on a sheet with an empty data row between two non-empty ones
C9_Witness ==
    /\ HeadedCall
    /\ Len(DataRows) >= 3
    /\ DataRows[1] # <<>> /\ DataRows[2] = <<>> /\ DataRows[3] # <<>>

(***************************************************************************)
(* Properties of the response-text extraction and of the error boundary    *)
(* (specification SpecExtract)                                             *)
(***************************************************************************)
\* the concatenation of a sequence of texts
RECURSIVE Concat(_)
Concat(texts) ==
    IF texts = <<>> THEN <<>> ELSE Head(texts) \o Concat(Tail(texts))

\* the text fragments of a parts list, in order
Fragments(parts) ==
    LET bearing == SelectSeq(parts, LAMBDA p : p.has_text)
    IN  [i \in 1..Len(bearing) |-> bearing[i].text]

\* the text fragments of the candidates' nested parts, in order
RECURSIVE CandidateFragments(_)
CandidateFragments(cands) ==
    IF cands = <<>> THEN <<>>
    ELSE (IF Head(cands).has_content /\ Head(cands).content_has_parts
          THEN Fragments(Head(cands).parts) ELSE <<>>)
         \o CandidateFragments(Tail(cands))

\* every text fragment a response holds: those of its parts, then those of
\* its candidates
AllFragments(response) ==
    (IF response.has_parts THEN Fragments(response.parts) ELSE <<>>)
    \o (IF response.has_candidates
        THEN CandidateFragments(response.candidates) ELSE <<>>)

\* a returned call whose prompt was built and answered with a response
\* object whose text attribute, if any, can be read
Answered ==
    /\ Returned
    /\ call.sheet_data.t = "list"
    /\ call.reply.kind = "response"
    /\ call.reply.response.text.kind # "raises"

\* C6 as stated: a response with a direct text field yields that field; a
\* response without one yields the concatenation of all its text
\* fragments, of its parts and of its candidates' nested parts, in
\* structural order without separators, and the empty string only when no
\* fragment bears text.
C6_ExtractionConcatenatesAllFragments ==
    Answered =>
        LET response == call.reply.response
        IN  IF response.text.kind = "value"
            THEN call.result.ret = Str(response.text.v)
            ELSE /\ call.result.ret = Str(Concat(AllFragments(response)))
                 /\ call.result.ret = Str(<<>>)
                      => \A i \in 1..Len(AllFragments(response)) :
                            AllFragments(response)[i] = <<>>

\* C6 amended: a response with a direct text field yields that field; a
\* response without one yields the concatenation, in structural order and
\* without separators, of the text fragments of the first structure it
\* has: of its parts list if it has one (its candidates are then not
\* read), otherwise of its candidates' nested parts; it yields the empty
\* string when that structure bears no text.
C6_ExtractionUsesFirstShape ==
    Answered =>
        LET response == call.reply.response
        IN  IF response.text.kind = "value"
            THEN call.result.ret = Str(response.text.v)
            ELSE IF response.has_parts
            THEN call.result.ret = Str(Concat(Fragments(response.parts)))
            ELSE IF response.has_candidates
            THEN call.result.ret =
                   Str(Concat(CandidateFragments(response.candidates)))
            ELSE call.result.ret = Str(<<>>)

\* a response without text and parts whose two candidates both bear text
C6_Witness ==
    /\ Answered
    /\ call.reply.response.text.kind = "absent"
    /\ ~call.reply.response.has_parts
    /\ call.reply.response.has_candidates
    /\ Len(CandidateFragments(call.reply.response.candidates)) = 2
    /\ call.result.ret # Str(<<>>)

\* the exception a call runs into, if any: while building the prompt (a
\* sheet value that cannot be indexed), calling the endpoint, or reading
\* the response text
CallRaises ==
    \/ call.sheet_data.t = "int" /\ call.sheet_data.n # 0
    \/ call.reply.kind = "raise"
    \/ call.reply.response.text.kind = "raises"

RaisedMessage ==
    IF call.sheet_data.t = "int" /\ call.sheet_data.n # 0
    THEN <<"'int' object is not subscriptable">>
    ELSE IF call.reply.kind = "raise" THEN call.reply.exc.str
    ELSE call.reply.response.text.exc.str

ErrorPrefix == <<"Error al comunicar con Google Gemini: ">>

\* C8: get_ai_response returns a str and lets no exception out; when the
\* prompt building, the endpoint call or the extraction raises, the str
\* returned is the Spanish error string followed by the exception's
\* message.
C8_ExceptionsBecomeErrorStrings ==
    Returned =>
        /\ ~call.result.escaped
        /\ call.result.ret.t = "str"
        /\ CallRaises =>
             LET text == call.result.ret.s
                 n == Len(ErrorPrefix) + Len(RaisedMessage)
             IN  /\ Len(text) >= n
                 /\ SubSeq(text, 1, n) = ErrorPrefix \o RaisedMessage

\* a call whose response text raised on reading
C8_Witness ==
    /\ Returned
    /\ call.sheet_data.t = "list"
    /\ call.reply.kind = "response"
    /\ call.reply.response.text.kind = "raises"
    /\ call.result.ret.t = "str"

(***************************************************************************)
(* Properties of the Data Fetcher (specification SpecFetch)                *)
(***************************************************************************)
Exited == f_pc = "exited"

\* this run resolved a credential, opened the spreadsheet, downloaded its
\* values and wrote them to the output file, an empty sheet as an empty
\* array
ValuesWritten ==
    /\ gc # None
    /\ fetched # NotFetched
    /\ all_values = (IF Truthy(fetched) THEN fetched ELSE JList(<<>>))
    /\ out_file = [kind |-> "valid", value |-> all_values]

\* C7: a run of fetch_and_save_data goes on until it exits, with code 0 or
\* 1 and no exception leaving it; it exits 0 exactly when the values were
\* written, the success line is on standard output exactly then, and an
\* exit with 1 has a message on the error stream.
C7_FetcherExitsZeroOrOne ==
    /\ ~escaped
    /\ ~Exited =>
         /\ exit_code = None
         /\ stdout = <<>>
         /\ ENABLED FetchNext
    /\ Exited =>
         /\ exit_code \in {0, 1}
         /\ exit_code = 0 <=> ValuesWritten
         /\ exit_code = 0 <=> stdout = SuccessLine
         /\ exit_code = 1 => (stderr # <<>> /\ stdout = <<>>)
         /\ exit_code = 0 => stderr = <<>>

\* a run on an empty sheet that wrote an empty array and exited 0
C7_Witness ==
    /\ Exited
    /\ exit_code = 0
    /\ fetched \in {None, JList(<<>>)}
    /\ out_file = [kind |-> "valid", value |-> JList(<<>>)]

====
